---- MODULE Spec2Model ----
(***************************************************************************)
(* SlideSonic encoding progress monitor (src/src/monitor_encoding.py).     *)
(*                                                                         *)
(* The monitor is one thread: main() checks that there is something to     *)
(* monitor and enters display_progress(), whose while-loop performs one    *)
(* poll per iteration.  A poll is a fixed sequence of system calls         *)
(* (process probe, log read, file existence and size reads, sleep); the    *)
(* variable pc is the position of the thread in that sequence.  Between    *)
(* any two calls the environment may start or end processes, and each      *)
(* file-system call returns what the file system holds at that instant,    *)
(* so every file reading is an input of the step that makes the call.      *)
(* The Unix branch of get_ffmpeg_processes is the one modelled.            *)
(***************************************************************************)
EXTENDS Integers, Sequences, FiniteSets, TLC

(* ---------------------------------------------------------------- bounds *)
MaxPid == 1
MaxTime == 2
MaxDur == 1
MaxScanPid == 3
MaxTail == 2

(* ------------------------------------------------------ program constants *)
SanitySize == 1024
Threshold == 5
EXIT_OK == 0
EXIT_FAIL == 1

(* ------------------------------------------------------------ value sets *)
NoPid == 0
Pids == 1 .. MaxPid
ScanPids == 1 .. MaxScanPid
SelfPid == MaxPid + MaxScanPid + 1
Kinds == {"none", "ffmpeg", "other"}

Absent == -1
Raised == -2
NotRead == -3
Sizes == {0, SanitySize, SanitySize + 1}
FileReadings == {Absent, Raised} \cup Sizes

TimeVals == 0 .. MaxTime
LogReadings == {Absent} \cup TimeVals
Durs == 0 .. MaxDur

NotExited == -1

VARIABLES
    pc,
    ffmpeg_pid,
    output_file,
    is_running,
    progress_info,
    current_size,
    last_progress_time,
    last_file_size,
    size_unchanged_count,
    time_unchanged_count,
    completed,
    outcome,
    exit_code,
    procs,
    selfMention,
    sigint,
    first_poll,
    done_read,
    prevT,
    prevS,
    tRun,
    sRun,
    steady,
    barePoll,
    tracking,
    arg_pid,
    probeFailed,
    log_tail,
    metadata,
    encoding_speed,
    resolved,
    out_size,
    log_time,
    shown,
    fmt_seconds,
    time_str,
    time_seconds,
    other_str,
    other_seconds,
    log_file,
    max_lines,
    recent_lines,
    read_error,
    read_fault

vars == <<pc, ffmpeg_pid, output_file, is_running, progress_info, current_size,
          last_progress_time, last_file_size, size_unchanged_count,
          time_unchanged_count, completed, outcome, exit_code, procs,
          selfMention, sigint, first_poll, done_read, prevT, prevS, tRun,
          sRun, steady, barePoll, tracking, arg_pid, probeFailed, log_tail,
          metadata, encoding_speed, resolved, out_size, log_time, shown,
          fmt_seconds, time_str, time_seconds, other_str, other_seconds,
          log_file, max_lines, recent_lines, read_error, read_fault>>

progVars == <<ffmpeg_pid, output_file, is_running, progress_info, current_size,
              last_progress_time, last_file_size, size_unchanged_count,
              time_unchanged_count, completed>>

\* progVars without the module global ffmpeg_pid: the locals of
\* display_progress.
progVars2 == <<output_file, is_running, progress_info, current_size,
               last_progress_time, last_file_size, size_unchanged_count,
               time_unchanged_count, completed>>

stagVars == <<last_progress_time, last_file_size, size_unchanged_count,
              time_unchanged_count>>

ghostVars == <<first_poll, done_read, prevT, prevS, tRun, sRun, steady,
               barePoll, tracking>>

\* What the poll loop does not hold: the --ffmpeg-pid argument (parsed at
\* line 94, read nowhere), whether the ps command of the last liveness check
\* raised, and the log tail, job metadata, speed and first resolved duration
\* of the log reader.
readerVars == <<arg_pid, probeFailed, log_tail, metadata, encoding_speed, resolved>>

\* The job's files as state (output file, log), what the terminal shows, and
\* the arguments and results of format_time, of the time conversion and of
\* read_latest_log_lines taken on their own.
jobVars == <<out_size, log_time, shown>>

convVars == <<fmt_seconds, time_str, time_seconds, other_str, other_seconds>>

tailVars == <<log_file, max_lines, recent_lines, read_error, read_fault>>

auxVars == <<readerVars, jobVars, convVars, tailVars>>

\* No percent on the terminal yet.
NoShown == <<-1, 1>>

\* The state of what a specification does not use.
JobAtRest ==
    /\ out_size = Absent
    /\ log_time = Absent
    /\ shown = NoShown

ConvAtRest ==
    /\ fmt_seconds = 0
    /\ time_str = <<>>
    /\ time_seconds = 0
    /\ other_str = <<>>
    /\ other_seconds = 0

TailAtRest ==
    /\ log_file = [exists |-> FALSE, lines |-> <<>>]
    /\ max_lines = 0
    /\ recent_lines = <<>>
    /\ read_error = FALSE
    /\ read_fault = "none"

Min(a, b) == IF a <= b THEN a ELSE b

(* ------------------------------------------------------- liveness tracker *)

\* A kill that delivers a terminating signal whatever sig is.
os_kill_terminating(table, pid, sig) ==
    IF pid \notin DOMAIN table
    THEN table
    ELSE [table EXCEPT ![pid] = "none"]

\* os.kill(pid, sig): the process table after the call.  Signal 0 performs
\* the existence and permission check only and delivers nothing.
os_kill(table, pid, sig) ==
    IF sig = 0 \/ pid \notin DOMAIN table
    THEN table
    ELSE [table EXCEPT ![pid] = "none"]

\* Does os.kill(pid, 0) succeed: is there a process with this id.
PidExists(table, pid) ==
    \/ pid = SelfPid
    \/ pid \in DOMAIN table /\ table[pid] # "none"

\* ps -p <pid> -o comm= : the command name of the process.
CommName(table, pid) ==
    IF pid = SelfPid THEN "python" ELSE table[pid]

\* The branch taken when ffmpeg_pid is known: existence probe, then the
\* command-name check; a failing ps after a successful probe counts as alive.
CheckKnownPid(table, pid, psFails) ==
    IF ~PidExists(table, pid) THEN FALSE
    ELSE IF psFails THEN TRUE
    ELSE CommName(table, pid) = "ffmpeg"

\* The pids whose line of `ps aux` contains 'ffmpeg' (and not 'grep'): the
\* encoder processes, and the monitor itself when its own command line
\* mentions ffmpeg (--ffmpeg-pid, --log-file .../ffmpeg_output.log).
FfmpegLines(table, mention) ==
    {p \in DOMAIN table : table[p] = "ffmpeg"}
        \cup (IF mention THEN {SelfPid} ELSE {})

\* The pid of ffmpeg_lines[0]: ps lists processes in pid order.
FirstPid(S) == CHOOSE p \in S : \A q \in S : p <= q

\* A liveness check that scans again once the known pid is gone.
GetFfmpegProcessesRescan(table, mention, pid, psFails) ==
    IF pid # NoPid /\ PidExists(table, pid)
    THEN [alive |-> CheckKnownPid(table, pid, psFails), pid |-> pid]
    ELSE IF psFails
    THEN [alive |-> FALSE, pid |-> pid]
    ELSE LET lines == FfmpegLines(table, mention) IN
         [alive |-> lines # {},
          pid |-> IF lines # {} THEN FirstPid(lines) ELSE pid]

\* get_ffmpeg_processes(): [alive, pid] where pid is the value of the global
\* ffmpeg_pid after the call.  A call runs one ps command, `ps -p` for a
\* known pid and `ps aux` otherwise; psFails: that command raised.
GetFfmpegProcesses(table, mention, pid, psFails) ==
    IF pid # NoPid
    THEN [alive |-> CheckKnownPid(table, pid, psFails), pid |-> pid]
    ELSE IF psFails
    THEN [alive |-> FALSE, pid |-> pid]
    ELSE LET lines == FfmpegLines(table, mention) IN
         [alive |-> lines # {},
          pid |-> IF lines # {} THEN FirstPid(lines) ELSE pid]

\* The process table after get_ffmpeg_processes(): the only signal sent is
\* the existence probe of the known pid.
ProbeEffect(table, pid) ==
    IF pid # NoPid THEN os_kill(table, pid, 0) ELSE table

(* ------------------------------------------------------ duration resolver *)

\* A resolver that prefers the log's duration to the metadata.
TotalDurationLogFirst(meta, logd) ==
    IF logd > 0 THEN 21 * logd
    ELSE IF meta > 0 THEN 21 * meta
    ELSE 0

\* total_duration of get_progress_info, in twentieths of a second (the 5%
\* buffer is the factor 21/20): the metadata file first, the log's duration
\* line otherwise, 0 when neither gives a positive value.  meta and logd
\* are the durations in seconds the two sources hold, 0 for none.
TotalDuration(meta, logd) ==
    IF meta > 0 THEN 21 * meta
    ELSE IF logd > 0 THEN 21 * logd
    ELSE 0

(* ----------------------------------------------------- progress estimator *)

\* progress_percent as an exact fraction <<numerator, denominator>>.
\* time / (dur20 / 20) * 100 = 2000 * time / dur20.
ProgressPercentUncapped(time, dur20) ==
    IF time > 0 /\ dur20 > 0 THEN <<2000 * time, dur20>>
    ELSE IF time > 0 THEN <<time, 5>>
    ELSE <<0, 1>>

\* The estimator without its extrapolation for an unknown duration.
ProgressPercentNoFallback(time, dur20) ==
    IF time > 0 /\ dur20 > 0
    THEN IF 2000 * time >= 95 * dur20 THEN <<95, 1>> ELSE <<2000 * time, dur20>>
    ELSE <<0, 1>>

ProgressPercent(time, dur20) ==
    IF time > 0 /\ dur20 > 0
    THEN IF 2000 * time >= 95 * dur20 THEN <<95, 1>> ELSE <<2000 * time, dur20>>
    ELSE IF time > 0
         THEN IF time >= 10 * 5 THEN <<10, 1>> ELSE <<time, 5>>
         ELSE <<0, 1>>

\* progress_info = {} : the log is missing, empty or unreadable.
NoInfo == [has |-> FALSE, time |-> 0, total_duration |-> 0, progress_percent |-> <<0, 1>>]

\* get_progress_info(log_file).  rd is the log reading: Absent when the file
\* is missing, empty or unreadable, otherwise the seconds of the last
\* time= occurrence of the tail (0 when the tail holds none).
get_progress_info(rd, meta, logd) ==
    IF rd = Absent THEN NoInfo
    ELSE [has |-> TRUE,
          time |-> rd,
          total_duration |-> TotalDuration(meta, logd),
          progress_percent |-> ProgressPercent(rd, TotalDuration(meta, logd))]

(* ---------------------------------------------------- completion detector *)

ProcessEndedInclusive(running, rd) ==
    ~running /\ rd >= SanitySize

\* Signal 1: not running and os.path.getsize(output_file) > 1024.  rd is the
\* reading of line 623: Absent, or the size.
ProcessEnded(running, rd) ==
    ~running /\ rd # Absent /\ rd > SanitySize

\* A time check that counts any repeated value, also 0.
TimeStagnationAnyValue(info, last, count) ==
    LET cur == IF info.has THEN info.time ELSE 0 IN
    IF cur = last
    THEN [count |-> count + 1, last |-> last, done |-> count + 1 >= Threshold]
    ELSE [count |-> 0, last |-> cur, done |-> FALSE]

\* Signal 2, lines 693-705: [count, last, done] after the time check.
TimeStagnation(info, last, count) ==
    LET cur == IF info.has THEN info.time ELSE 0 IN
    IF cur > 0 /\ cur = last
    THEN [count |-> count + 1, last |-> last, done |-> count + 1 >= Threshold]
    ELSE [count |-> 0, last |-> cur, done |-> FALSE]

SizeStagnationLate(exists, cur, last, count) ==
    IF exists /\ cur = last /\ cur > 0
    THEN [count |-> count + 1,
          last |-> IF count + 1 > Threshold THEN last ELSE cur,
          done |-> count + 1 > Threshold]
    ELSE [count |-> IF exists THEN 0 ELSE count, last |-> cur, done |-> FALSE]

\* Signal 3, lines 707-717: [count, last, done] after the size check.
\* exists is os.path.exists(output_file) of line 708, cur is current_size.
SizeStagnation(exists, cur, last, count) ==
    IF exists /\ cur = last /\ cur > 0
    THEN [count |-> count + 1,
          last |-> IF count + 1 >= Threshold THEN last ELSE cur,
          done |-> count + 1 >= Threshold]
    ELSE [count |-> IF exists THEN 0 ELSE count, last |-> cur, done |-> FALSE]

(* ------------------------------------------------------------ exit codes *)

Completions == {"process", "time", "size"}

\* What sys.exit(main()) receives: display_progress returns 0 on every path
\* (completion, KeyboardInterrupt, Exception), main returns 1 when there is
\* nothing to monitor and 0 on its own KeyboardInterrupt.
ExitCode(how) ==
    IF how = "nojob" THEN EXIT_FAIL ELSE EXIT_OK

(* --------------------------------------------------------- interruption *)

\* Is a KeyboardInterrupt raised at this position caught by a bare `except:`
\* and the loop left running: inside `ps -p` of the known-pid probe (line
\* 194), inside get_processor_usage / get_encoding_speed (lines 636, 647).
Swallowed(at, pid, table) ==
    \/ at = "probe" /\ pid # NoPid /\ PidExists(table, pid)
    \/ at = "metrics"

(* ------------------------------------------------------------------ Init *)

\* The state at the start of main(): module globals as initialised (line
\* 34), the locals of display_progress at the values lines 597-602 give
\* them, any process table, either kind of command line.
InitMonitor ==
    /\ pc = "main"
    /\ ffmpeg_pid = NoPid
    /\ output_file = "arg"
    /\ is_running = FALSE
    /\ progress_info = NoInfo
    /\ current_size = 0
    /\ last_progress_time = 0
    /\ last_file_size = 0
    /\ size_unchanged_count = 0
    /\ time_unchanged_count = 0
    /\ completed = FALSE
    /\ outcome = "none"
    /\ exit_code = NotExited
    /\ procs \in [Pids -> Kinds]
    /\ selfMention \in BOOLEAN
    /\ sigint = FALSE
    /\ first_poll = TRUE
    /\ done_read = NotRead
    /\ prevT = 0
    /\ prevS = 0
    /\ tRun = 0
    /\ sRun = 0
    /\ steady = 0
    /\ barePoll = FALSE
    /\ probeFailed = FALSE
    /\ log_tail = <<>>
    /\ metadata = 0
    /\ encoding_speed = 0
    /\ resolved = 0
    /\ JobAtRest
    /\ ConvAtRest
    /\ TailAtRest

\* tracking switches the run-length history tRun, sRun on; the monitor does
\* not read it.  Nor does it read args.ffmpeg_pid, so the runs without the
\* option stand for all.
Init == InitMonitor /\ tracking = FALSE /\ arg_pid = NoPid

InitTracked == InitMonitor /\ tracking = TRUE /\ arg_pid = NoPid

\* The locals of display_progress stop existing when it returns.
DiscardLocals ==
    /\ output_file' = "arg"
    /\ is_running' = FALSE
    /\ progress_info' = NoInfo
    /\ current_size' = 0
    /\ last_progress_time' = 0
    /\ last_file_size' = 0
    /\ size_unchanged_count' = 0
    /\ time_unchanged_count' = 0
    /\ first_poll' = FALSE
    /\ barePoll' = FALSE
    /\ prevT' = 0
    /\ prevS' = 0
    /\ UNCHANGED tracking

\* The monitor ends without a completion verdict (lines 798-803, 828, 839):
\* the outcome, and the code sys.exit receives.
Exit(how) ==
    /\ pc' = "done"
    /\ outcome' = how
    /\ exit_code' = ExitCode(how)
    /\ completed' = FALSE
    /\ DiscardLocals
    /\ done_read' = NotRead
    /\ tRun' = 0
    /\ sRun' = 0
    /\ steady' = -1

\* `completed = True; break` (lines 624-626, 700-702, 712-714): the loop is
\* left with a completion verdict, the final summary is printed (lines
\* 766-797), display_progress returns 0 and main passes it to sys.exit
\* (lines 803, 836, 845); an exception of the summary's own size read
\* (lines 776-777) is caught at line 800 and changes neither the verdict
\* nor the 0 returned.  completed keeps the verdict; what the last poll
\* read (done_read, steady, tRun, sRun) is set by the step that breaks.
Break(how) ==
    /\ pc' = "done"
    /\ outcome' = how
    /\ exit_code' = ExitCode(how)
    /\ completed' = TRUE
    /\ DiscardLocals

Continue(next) ==
    /\ pc' = next
    /\ UNCHANGED <<outcome, exit_code>>

\* The number of consecutive polls, this one included, whose positive
\* reading equalled the reading of the poll before.
RunLength(reading, prev, run) ==
    IF tracking /\ reading > 0 /\ reading = prev
    THEN Min(run + 1, Threshold + 1) ELSE 0

\* A poll is steady so far when the process is reported alive, the video
\* time is positive and differs from the previous poll's, and the output
\* file is there with the one non-zero size of the polls before.
StillSteady(ok) == IF steady >= 0 /\ ok THEN steady ELSE -1

(* ---------------------------------------------------------------- main() *)

\* main(), lines 823-836: nothing to monitor when the log file does not
\* exist and no ffmpeg process is found; otherwise display_progress starts.
Main ==
    /\ pc = "main"
    /\ UNCHANGED auxVars
    /\ procs' = ProbeEffect(procs, ffmpeg_pid)
    /\ UNCHANGED <<selfMention, sigint>>
    /\ \E logExists \in BOOLEAN, psFails \in BOOLEAN :
        LET r == GetFfmpegProcesses(procs, selfMention, ffmpeg_pid, psFails) IN
        IF logExists
        THEN /\ Continue("probe")
             /\ UNCHANGED ffmpeg_pid
             /\ UNCHANGED progVars2
             /\ UNCHANGED ghostVars
        ELSE /\ ffmpeg_pid' = r.pid
             /\ IF r.alive
                THEN Continue("probe") /\ UNCHANGED progVars2 /\ UNCHANGED ghostVars
                ELSE Exit("nojob")

(* ------------------------------------------------------- one poll, by step *)

\* Line 608: is_running = get_ffmpeg_processes().
Probe ==
    /\ pc = "probe"
    /\ UNCHANGED auxVars
    /\ \E psFails \in BOOLEAN :
        LET r == GetFfmpegProcesses(procs, selfMention, ffmpeg_pid, psFails) IN
        /\ is_running' = r.alive
        /\ ffmpeg_pid' = r.pid
        /\ steady' = StillSteady(r.alive)
    /\ procs' = ProbeEffect(procs, ffmpeg_pid)
    /\ barePoll' = (first_poll /\ ffmpeg_pid = NoPid
                        /\ \A p \in Pids : procs[p] # "ffmpeg")
    /\ sigint' = FALSE
    /\ Continue("info")
    /\ UNCHANGED <<output_file, progress_info, current_size, completed>>
    /\ UNCHANGED stagVars
    /\ UNCHANGED <<selfMention, first_poll, done_read, prevT, prevS, tRun, sRun>>
    /\ UNCHANGED tracking

\* The durations the two sources can hold when get_progress_info gets to
\* them: it returns before opening either when the log gives nothing.
DursRead(rd) == IF rd = Absent THEN {0} ELSE Durs

\* Line 609: progress_info = get_progress_info(log_file) or {}.
Info ==
    /\ pc = "info"
    /\ UNCHANGED auxVars
    /\ \E rd \in LogReadings :
       \E meta \in DursRead(rd), logd \in DursRead(rd) :
        /\ progress_info' = get_progress_info(rd, meta, logd)
        /\ steady' = StillSteady(rd > 0 /\ rd # prevT)
        /\ barePoll' = (barePoll /\ rd = Absent)
    /\ sigint' = FALSE
    /\ Continue("check")
    /\ UNCHANGED <<ffmpeg_pid, output_file, is_running, current_size, completed>>
    /\ UNCHANGED stagVars
    /\ UNCHANGED <<procs, selfMention, first_poll, done_read, prevT, prevS,
                   tRun, sRun>>
    /\ UNCHANGED tracking

\* Lines 615-619: when output_file does not exist, switch to the file
\* find_output_file() returns if that one exists and is another file.
\* look is what line 615 and find_output_file see.
FoundOutput(file, look) == IF look = "found" THEN "found" ELSE file

\* Lines 615-626 with the process reported running: the output file is
\* looked for, the process-ended signal is not checked.
CheckEndedSkip ==
    /\ pc = "check"
    /\ UNCHANGED auxVars
    /\ is_running
    /\ \E look \in {"exists", "missing", "found"} :
        /\ output_file' = FoundOutput(output_file, look)
        /\ barePoll' = (barePoll /\ look = "missing")
    /\ sigint' = FALSE
    /\ Continue("metrics")
    /\ UNCHANGED <<ffmpeg_pid, is_running, progress_info, current_size, completed>>
    /\ UNCHANGED stagVars
    /\ UNCHANGED <<procs, selfMention, first_poll, done_read, prevT, prevS,
                   tRun, sRun, steady>>
    /\ UNCHANGED tracking

\* Lines 615-626 with the process reported not running: the process-ended
\* signal.  The existence test and the size read of line 623 are two calls:
\* the file may vanish in between and getsize raise, which the
\* `except Exception` of line 800 turns into the end of the loop.
CheckEnded ==
    /\ pc = "check"
    /\ UNCHANGED auxVars
    /\ ~is_running
    /\ UNCHANGED <<procs, selfMention, ffmpeg_pid>>
    /\ sigint' = FALSE
    /\ \E look \in {"exists", "missing", "found"}, rd \in FileReadings :
        IF rd = Raised
        THEN Exit("error")
        ELSE /\ done_read' = rd
             /\ UNCHANGED <<tRun, sRun, steady>>
             /\ IF ProcessEnded(is_running, rd)
                THEN Break("process")
                ELSE /\ Continue("metrics")
                     /\ output_file' = FoundOutput(output_file, look)
                     /\ barePoll' = (barePoll /\ look = "missing" /\ rd = Absent)
                     /\ UNCHANGED <<is_running, progress_info, current_size,
                                    completed, first_poll, prevT, prevS, tracking>>
                     /\ UNCHANGED stagVars

\* Lines 628-685: CPU usage, encoding speed and the status line; nothing of
\* the monitor's state changes.
Metrics ==
    /\ pc = "metrics"
    /\ UNCHANGED auxVars
    /\ done_read' = NotRead
    /\ sigint' = FALSE
    /\ Continue("stagnation")
    /\ UNCHANGED progVars
    /\ UNCHANGED <<procs, selfMention, first_poll, prevT, prevS, tRun, sRun,
                   steady, barePoll>>
    /\ UNCHANGED tracking

\* Lines 687-717: current_size is read (existence test and size read are
\* two calls, so getsize may raise), then the video-time stagnation signal,
\* then the output-size stagnation signal with its own
\* os.path.exists(output_file) (exists).  tRun and sRun count, from the
\* readings alone, the consecutive polls in which the positive reading
\* equalled that of the poll before.
Stagnation ==
    /\ pc = "stagnation"
    /\ UNCHANGED auxVars
    /\ UNCHANGED <<procs, selfMention, ffmpeg_pid>>
    /\ sigint' = FALSE
    /\ \E rd \in FileReadings, exists \in BOOLEAN :
        LET cur == IF rd = Absent THEN 0 ELSE rd
            t == TimeStagnation(progress_info, last_progress_time, time_unchanged_count)
            z == SizeStagnation(exists, cur, last_file_size, size_unchanged_count)
            reading == IF progress_info.has THEN progress_info.time ELSE Absent
            steadyNow == StillSteady(exists /\ rd > 0 /\ (steady = 0 \/ rd = prevS))
        IN
        IF rd = Raised
        THEN Exit("error")
        ELSE /\ tRun' = RunLength(reading, prevT, tRun)
             /\ UNCHANGED done_read
             /\ IF t.done
                THEN /\ Break("time")
                     /\ UNCHANGED <<sRun, steady>>
                ELSE /\ sRun' = RunLength(rd, prevS, sRun)
                     /\ steady' = IF steadyNow >= 0
                                  THEN Min(steady + 1, Threshold + 2) ELSE -1
                     /\ IF z.done
                        THEN Break("size")
                        ELSE /\ Continue("sleep")
                             /\ current_size' = cur
                             /\ time_unchanged_count' = t.count
                             /\ last_progress_time' = t.last
                             /\ size_unchanged_count' = z.count
                             /\ last_file_size' = z.last
                             /\ prevT' = IF reading > 0 THEN reading ELSE 0
                             /\ prevS' = IF rd > 0 THEN rd ELSE 0
                             /\ UNCHANGED <<output_file, is_running, progress_info,
                                            completed, first_poll, barePoll,
                                            tracking>>

\* Lines 719-764: the status line, every tenth interval the progress
\* summary, which reads the output file's size once more (lines 752-753;
\* raised: getsize raised), and time.sleep(update_interval).  The per-iteration
\* locals is_running, progress_info and current_size are each assigned
\* (lines 608, 609, 688) before the next iteration reads them, so they are
\* put back to their placeholder values here.
Sleep ==
    /\ pc = "sleep"
    /\ UNCHANGED auxVars
    /\ UNCHANGED <<procs, selfMention, ffmpeg_pid>>
    /\ sigint' = FALSE
    /\ \E raised \in BOOLEAN :
        IF raised
        THEN Exit("error")
        ELSE /\ Continue("probe")
             /\ first_poll' = FALSE
             /\ barePoll' = FALSE
             /\ is_running' = FALSE
             /\ progress_info' = NoInfo
             /\ current_size' = 0
             /\ UNCHANGED <<output_file, completed>>
             /\ UNCHANGED stagVars
             /\ UNCHANGED <<done_read, prevT, prevS, tRun, sRun, steady, tracking>>

(* ------------------------------------------------------------- interrupts *)

PollPcs == {"probe", "info", "check", "metrics", "stagnation", "sleep"}

\* SIGINT raises KeyboardInterrupt in the call that is running; no handler
\* is installed (setup_signal_handlers is never called).  It reaches the
\* `except KeyboardInterrupt` of display_progress (line 798) or of main
\* (line 837) unless a bare `except:` on the way catches it.  sigint says
\* that the step just taken was the delivery of an interrupt.
Interrupt ==
    /\ pc \in PollPcs \cup {"main"}
    /\ UNCHANGED auxVars
    /\ ~Swallowed(pc, ffmpeg_pid, procs)
    /\ sigint' = TRUE
    /\ Exit("interrupted")
    /\ UNCHANGED <<ffmpeg_pid, procs, selfMention>>

\* Interrupt while `ps -p` of the known-pid probe runs: line 194 catches it
\* and get_ffmpeg_processes returns True.
InterruptProbe ==
    /\ pc = "probe"
    /\ UNCHANGED auxVars
    /\ Swallowed(pc, ffmpeg_pid, procs)
    /\ sigint' = TRUE
    /\ is_running' = TRUE
    /\ procs' = ProbeEffect(procs, ffmpeg_pid)
    /\ steady' = StillSteady(TRUE)
    /\ barePoll' = FALSE
    /\ Continue("info")
    /\ UNCHANGED <<ffmpeg_pid, output_file, progress_info, current_size, completed>>
    /\ UNCHANGED stagVars
    /\ UNCHANGED <<selfMention, first_poll, done_read, prevT, prevS, tRun,
                   sRun>>
    /\ UNCHANGED tracking

\* Interrupt inside get_processor_usage or get_encoding_speed: the bare
\* excepts of lines 296, 636 and 647 catch it and the poll goes on.
InterruptMetrics ==
    /\ pc = "metrics"
    /\ UNCHANGED auxVars
    /\ Swallowed(pc, ffmpeg_pid, procs)
    /\ sigint' = TRUE
    /\ done_read' = NotRead
    /\ Continue("stagnation")
    /\ UNCHANGED progVars
    /\ UNCHANGED <<procs, selfMention, first_poll, prevT, prevS, tRun, sRun,
                   steady, barePoll>>
    /\ UNCHANGED tracking

(* ------------------------------------------------------------ environment *)

\* A process starts under a free pid, or a process ends: the encoding job
\* and every other process of the machine run on their own.
ProcStart ==
    \E p \in DOMAIN procs, k \in Kinds \ {"none"} :
        /\ procs[p] = "none"
        /\ UNCHANGED auxVars
        /\ procs' = [procs EXCEPT ![p] = k]
        /\ UNCHANGED <<pc, outcome, exit_code, selfMention, sigint>>
        /\ UNCHANGED progVars
        /\ UNCHANGED ghostVars

ProcExit ==
    \E p \in DOMAIN procs :
        /\ procs[p] # "none"
        /\ UNCHANGED auxVars
        /\ procs' = [procs EXCEPT ![p] = "none"]
        /\ UNCHANGED <<pc, outcome, exit_code, selfMention, sigint>>
        /\ UNCHANGED progVars
        /\ UNCHANGED ghostVars

Next ==
    \/ Main
    \/ Probe
    \/ Info
    \/ CheckEndedSkip
    \/ CheckEnded
    \/ Metrics
    \/ Stagnation
    \/ Sleep
    \/ Interrupt
    \/ InterruptProbe
    \/ InterruptMetrics
    \/ ProcStart
    \/ ProcExit

Spec == Init /\ [][Next]_vars

\* The same monitor with the run-length history recorded.
TrackedSpec == InitTracked /\ [][Next]_vars

(* ------------------------------------------ the liveness check on its own *)

\* get_ffmpeg_processes() called time after time, as main (line 825) and
\* every poll (line 608) call it, on a process table of MaxScanPid ids that
\* changes between the calls.  The global ffmpeg_pid starts at None (line
\* 34) also when --ffmpeg-pid is given: parse_arguments stores the option in
\* args.ffmpeg_pid (line 94) and no statement copies it to the global.  A
\* command line with that option contains 'ffmpeg'.
LivenessInit ==
    /\ pc = "liveness"
    /\ ffmpeg_pid = NoPid
    /\ arg_pid \in {NoPid} \cup ScanPids
    /\ procs \in [ScanPids -> Kinds]
    /\ selfMention \in BOOLEAN
    /\ arg_pid # NoPid => selfMention
    /\ is_running = FALSE
    /\ probeFailed = FALSE
    /\ output_file = "arg"
    /\ progress_info = NoInfo
    /\ current_size = 0
    /\ last_progress_time = 0
    /\ last_file_size = 0
    /\ size_unchanged_count = 0
    /\ time_unchanged_count = 0
    /\ completed = FALSE
    /\ outcome = "none"
    /\ exit_code = NotExited
    /\ sigint = FALSE
    /\ first_poll = TRUE
    /\ done_read = NotRead
    /\ prevT = 0
    /\ prevS = 0
    /\ tRun = 0
    /\ sRun = 0
    /\ steady = 0
    /\ barePoll = FALSE
    /\ tracking = FALSE
    /\ log_tail = <<>>
    /\ metadata = 0
    /\ encoding_speed = 0
    /\ resolved = 0
    /\ JobAtRest
    /\ ConvAtRest
    /\ TailAtRest

\* One call of get_ffmpeg_processes().  probeFailed: the ps command the call
\* ran raised (no ps command is run for a known pid that os.kill does not
\* find).
LivenessCheck ==
    /\ pc = "liveness"
    /\ \E psFails \in BOOLEAN :
        LET r == GetFfmpegProcesses(procs, selfMention, ffmpeg_pid, psFails) IN
        /\ is_running' = r.alive
        /\ ffmpeg_pid' = r.pid
        /\ probeFailed' = (psFails /\ (ffmpeg_pid = NoPid \/ PidExists(procs, ffmpeg_pid)))
    /\ procs' = ProbeEffect(procs, ffmpeg_pid)
    /\ UNCHANGED <<pc, output_file, progress_info, current_size, completed,
                   outcome, exit_code, selfMention, sigint, arg_pid, log_tail,
                   metadata, encoding_speed, resolved>>
    /\ UNCHANGED <<jobVars, convVars, tailVars>>
    /\ UNCHANGED stagVars
    /\ UNCHANGED ghostVars

LivenessNext ==
    \/ LivenessCheck
    \/ ProcStart
    \/ ProcExit

LivenessSpec == LivenessInit /\ [][LivenessNext]_vars

(* ------------------------------------------------ the log reader on its own *)

\* A line of the log tail read_latest_log_lines returns, by what the regular
\* expressions of the extractors find in it.  ffmpeg writes one record per
\* line: a statistics line (time=..., speed=...x), a 'Duration: HH:MM:SS.ss'
\* header, the application's 'Creating slideshow with N seconds total
\* duration' line, or a line none of the expressions matches.  A field is
\* NoField when the line has no match for it and Unparsable when the match
\* does not convert to a number (time=00:05, speed=1.2.3x).
NoField == -1
Unparsable == -2
SpeedCap == 8

TimeTokens == {NoField, Unparsable, 0, 1, 50}
SpeedTokens == {NoField, Unparsable, 0, 2, 9}
HeaderDurs == {0, 40}
SlideDurs == {20}
MetaDurs == {0, 120}

StatsLines ==
    {[time |-> t, speed |-> v, header |-> NoField, slide |-> NoField] :
        t \in TimeTokens, v \in SpeedTokens}

HeaderLines ==
    {[time |-> NoField, speed |-> NoField, header |-> d, slide |-> NoField] :
        d \in HeaderDurs}

SlideLines ==
    {[time |-> NoField, speed |-> NoField, header |-> NoField, slide |-> d] :
        d \in SlideDurs}

LogLines == StatsLines \cup HeaderLines \cup SlideLines

\* The lines before the last one.
Front(lines) == SubSeq(lines, 1, Len(lines) - 1)

\* A scan that takes the first time occurrence of the tail.
RECURSIVE ExtractTimeFirst(_)
ExtractTimeFirst(lines) ==
    IF lines = <<>> THEN 0
    ELSE IF Head(lines).time = NoField THEN ExtractTimeFirst(Tail(lines))
    ELSE IF Head(lines).time = Unparsable THEN 0
    ELSE Head(lines).time

\* Lines 380-398: time_seconds.  The lines are scanned from the end; the
\* first line with a time= match ends the scan, with 0 when the match does
\* not convert; 0 when no line matches.
RECURSIVE ExtractTime(_)
ExtractTime(lines) ==
    IF lines = <<>> THEN 0
    ELSE IF lines[Len(lines)].time = NoField THEN ExtractTime(Front(lines))
    ELSE IF lines[Len(lines)].time = Unparsable THEN 0
    ELSE lines[Len(lines)].time

\* Lines 333-366: get_encoding_speed.  The lines are scanned from the end;
\* a match that does not convert is skipped; the first value found is
\* returned capped at 8.0; 0 when there is none or no line at all.
RECURSIVE get_encoding_speed(_)
get_encoding_speed(lines) ==
    IF lines = <<>> THEN 0
    ELSE IF lines[Len(lines)].speed < 0 THEN get_encoding_speed(Front(lines))
    ELSE Min(SpeedCap, lines[Len(lines)].speed)

\* Lines 416-426: the first 'Duration:' header of the tail, in seconds; 0
\* when there is none.
RECURSIVE HeaderDuration(_)
HeaderDuration(lines) ==
    IF lines = <<>> THEN 0
    ELSE IF Head(lines).header = NoField THEN HeaderDuration(Tail(lines))
    ELSE Head(lines).header

\* Lines 429-440: the slideshow line; the loop has no break, so the last
\* such line of the tail counts.
RECURSIVE SlideDuration(_)
SlideDuration(lines) ==
    IF lines = <<>> THEN 0
    ELSE IF lines[Len(lines)].slide = NoField THEN SlideDuration(Front(lines))
    ELSE lines[Len(lines)].slide

\* Lines 415-440: the duration in seconds the log gives: the header, and
\* the slideshow line when the header gives no positive value.
LogDuration(lines) ==
    IF HeaderDuration(lines) > 0 THEN HeaderDuration(lines)
    ELSE SlideDuration(lines)

\* The log reading of a tail: nothing when read_latest_log_lines returns no
\* line (lines 371-377), the extracted video time otherwise.
LogReading(lines) == IF lines = <<>> THEN Absent ELSE ExtractTime(lines)

\* The log reader polled time after time while the encoder appends lines
\* to the log (the oldest line leaves the tail once it holds MaxTail lines)
\* and the job metadata file is written, removed or becomes unreadable.
ReaderInit ==
    /\ pc = "log"
    /\ log_tail = <<>>
    /\ metadata \in MetaDurs
    /\ encoding_speed = 0
    /\ resolved = 0
    /\ JobAtRest
    /\ ConvAtRest
    /\ TailAtRest
    /\ progress_info = NoInfo
    /\ ffmpeg_pid = NoPid
    /\ arg_pid = NoPid
    /\ procs = [p \in Pids |-> "none"]
    /\ selfMention = FALSE
    /\ is_running = FALSE
    /\ probeFailed = FALSE
    /\ output_file = "arg"
    /\ current_size = 0
    /\ last_progress_time = 0
    /\ last_file_size = 0
    /\ size_unchanged_count = 0
    /\ time_unchanged_count = 0
    /\ completed = FALSE
    /\ outcome = "none"
    /\ exit_code = NotExited
    /\ sigint = FALSE
    /\ first_poll = TRUE
    /\ done_read = NotRead
    /\ prevT = 0
    /\ prevS = 0
    /\ tRun = 0
    /\ sRun = 0
    /\ steady = 0
    /\ barePoll = FALSE
    /\ tracking = FALSE

readerFrame == <<ffmpeg_pid, arg_pid, procs, selfMention, is_running,
                 probeFailed, output_file, current_size, completed, outcome,
                 exit_code, sigint>>

\* The encoder writes a line; the results of the last poll are the locals of
\* an iteration that is over.
LogAppend ==
    /\ \E line \in LogLines :
        log_tail' = IF Len(log_tail) < MaxTail
                    THEN Append(log_tail, line)
                    ELSE Append(Tail(log_tail), line)
    /\ pc' = "log"
    /\ progress_info' = NoInfo
    /\ encoding_speed' = 0
    /\ UNCHANGED <<metadata, resolved>>
    /\ UNCHANGED readerFrame
    /\ UNCHANGED <<jobVars, convVars, tailVars>>
    /\ UNCHANGED stagVars
    /\ UNCHANGED ghostVars

\* temp/encode_metadata.json changes: metadata is the total_duration it
\* holds, 0 when the file is missing, unreadable or without the key.
MetaWrite ==
    /\ \E m \in MetaDurs \ {metadata} : metadata' = m
    /\ pc' = "log"
    /\ progress_info' = NoInfo
    /\ encoding_speed' = 0
    /\ UNCHANGED <<log_tail, resolved>>
    /\ UNCHANGED readerFrame
    /\ UNCHANGED <<jobVars, convVars, tailVars>>
    /\ UNCHANGED stagVars
    /\ UNCHANGED ghostVars

\* One poll's reads of the log: get_progress_info (line 609) and
\* get_encoding_speed (line 641), each on the tail it reads.  resolved keeps
\* the first positive total duration a poll of the run resolved.
ReadLog ==
    /\ pc = "log"
    /\ pc' = "read"
    /\ progress_info' = get_progress_info(LogReading(log_tail), metadata,
                                          LogDuration(log_tail))
    /\ encoding_speed' = get_encoding_speed(log_tail)
    /\ resolved' = IF resolved = 0 /\ progress_info'.has
                   THEN progress_info'.total_duration ELSE resolved
    /\ UNCHANGED <<log_tail, metadata>>
    /\ UNCHANGED readerFrame
    /\ UNCHANGED <<jobVars, convVars, tailVars>>
    /\ UNCHANGED stagVars
    /\ UNCHANGED ghostVars

ReaderNext ==
    \/ LogAppend
    \/ MetaWrite
    \/ ReadLog

ReaderSpec == ReaderInit /\ [][ReaderNext]_vars

(* ------------------------------------------- the poll loop on a job's files *)

\* The poll loop of display_progress on a job whose output file and log are
\* state: out_size is the size of the output file (Absent: no file),
\* log_time the seconds of the last time= occurrence of the log (Absent: log
\* missing or empty).  Only the encoder writes them, so they change while
\* an encoder process runs and are fixed once it has exited.  shown is the
\* percent the terminal shows last, NoShown for none or '--%'.
Encoding == \E p \in DOMAIN procs : procs[p] = "ffmpeg"

JobInit ==
    /\ pc = "probe"
    /\ procs \in [Pids -> {"ffmpeg", "none"}]
    /\ selfMention \in BOOLEAN
    /\ ffmpeg_pid = NoPid
    /\ arg_pid = NoPid
    /\ probeFailed = FALSE
    /\ log_tail = <<>>
    /\ metadata = 0
    /\ encoding_speed = 0
    /\ resolved = 0
    /\ JobAtRest
    /\ ConvAtRest
    /\ TailAtRest
    /\ output_file = "arg"
    /\ is_running = FALSE
    /\ progress_info = NoInfo
    /\ current_size = 0
    /\ last_progress_time = 0
    /\ last_file_size = 0
    /\ size_unchanged_count = 0
    /\ time_unchanged_count = 0
    /\ completed = FALSE
    /\ outcome = "none"
    /\ exit_code = NotExited
    /\ sigint = FALSE
    /\ first_poll = TRUE
    /\ done_read = NotRead
    /\ prevT = 0
    /\ prevS = 0
    /\ tRun = 0
    /\ sRun = 0
    /\ steady = 0
    /\ barePoll = FALSE
    /\ tracking = FALSE

jobFrame == <<selfMention, sigint, readerVars, convVars, tailVars>>

\* The encoder writes to the output file: the file appears or grows.
OutputWrite ==
    /\ pc # "done"
    /\ Encoding
    /\ \E size \in Sizes : size > out_size /\ out_size' = size
    /\ UNCHANGED <<pc, outcome, exit_code, procs, log_time, shown>>
    /\ UNCHANGED jobFrame
    /\ UNCHANGED progVars
    /\ UNCHANGED ghostVars

\* The encoder writes a statistics line with a later time to the log.
LogWrite ==
    /\ pc # "done"
    /\ Encoding
    /\ \E time \in TimeVals : time > log_time /\ log_time' = time
    /\ UNCHANGED <<pc, outcome, exit_code, procs, out_size, shown>>
    /\ UNCHANGED jobFrame
    /\ UNCHANGED progVars
    /\ UNCHANGED ghostVars

\* Lines 651-685 and 744-746: the percent of the status line and of the
\* progress summary, '--%' when the total duration is not known.
StatusPercent(info) ==
    IF info.has /\ info.total_duration > 0 THEN info.progress_percent ELSE NoShown

\* Lines 766-797: the final summary prints the elapsed time, the file size,
\* the video and planned durations and the processing speed, and no
\* percent: the terminal keeps the percent of the last status line.
FinalSummaryPercent(last) == last

\* One iteration of the while loop, lines 606-717, on the files as they are:
\* liveness check, log read, the process-ended signal, the status line, the
\* two stagnation signals.  The status line is written (line 720) only when
\* no signal has ended the loop.
PollOnce ==
    /\ pc = "probe"
    /\ \E psFails \in BOOLEAN :
       \E meta \in DursRead(log_time), logd \in DursRead(log_time) :
        LET r == GetFfmpegProcesses(procs, selfMention, ffmpeg_pid, psFails)
            info == get_progress_info(log_time, meta, logd)
            cur == IF out_size = Absent THEN 0 ELSE out_size
            t == TimeStagnation(info, last_progress_time, time_unchanged_count)
            z == SizeStagnation(out_size # Absent, cur, last_file_size,
                                size_unchanged_count)
            how == IF ProcessEnded(r.alive, out_size) THEN "process"
                   ELSE IF t.done THEN "time"
                   ELSE IF z.done THEN "size"
                   ELSE "none"
        IN
        /\ ffmpeg_pid' = r.pid
        /\ IF how # "none"
           THEN /\ Break(how)
                /\ shown' = FinalSummaryPercent(shown)
                /\ UNCHANGED <<done_read, tRun, sRun, steady>>
           ELSE /\ Continue("sleep")
                /\ is_running' = r.alive
                /\ progress_info' = info
                /\ current_size' = cur
                /\ time_unchanged_count' = t.count
                /\ last_progress_time' = t.last
                /\ size_unchanged_count' = z.count
                /\ last_file_size' = z.last
                /\ shown' = StatusPercent(info)
                /\ UNCHANGED <<output_file, completed>>
                /\ UNCHANGED ghostVars
    /\ procs' = ProbeEffect(procs, ffmpeg_pid)
    /\ UNCHANGED <<out_size, log_time>>
    /\ UNCHANGED jobFrame

\* Line 764: time.sleep(update_interval); the next iteration assigns
\* is_running, progress_info and current_size before it reads them.
JobSleep ==
    /\ pc = "sleep"
    /\ Continue("probe")
    /\ is_running' = FALSE
    /\ progress_info' = NoInfo
    /\ current_size' = 0
    /\ UNCHANGED <<ffmpeg_pid, output_file, completed, procs>>
    /\ UNCHANGED stagVars
    /\ UNCHANGED ghostVars
    /\ UNCHANGED jobVars
    /\ UNCHANGED jobFrame

\* The encoder process exits.
JobExit ==
    /\ pc # "done"
    /\ ProcExit

JobNext ==
    \/ PollOnce
    \/ JobSleep
    \/ OutputWrite
    \/ LogWrite
    \/ JobExit

JobSpec == JobInit /\ [][JobNext]_vars

\* The loop polls for as long as it has not ended: the thread is scheduled
\* and time.sleep returns.
JobFairSpec == JobSpec /\ WF_vars(PollOnce) /\ WF_vars(JobSleep)

(* --------------------------------------------- time formatting, conversion *)

\* A text is a sequence of characters.  The characters of a time text, in
\* the order of their codes.
Chars == <<".", "0", "1", "2", "3", "4", "5", "6", "7", "8", "9", ":">>

CharCode(c) == CHOOSE i \in 1 .. Len(Chars) : Chars[i] = c

DigitChar(d) == Chars[d + 2]

IsDigit(c) == c \notin {".", ":"}

DigitValue(c) == CharCode(c) - 2

\* str(n) for a natural number.
RECURSIVE Decimal(_)
Decimal(n) ==
    IF n < 10 THEN <<DigitChar(n)>>
    ELSE Append(Decimal(n \div 10), DigitChar(n % 10))

\* f"{n:02d}": at least two digits.
Pad2(n) == IF n < 10 THEN <<"0", DigitChar(n)>> ELSE Decimal(n)

\* Line 520: the largest value format_time shows, 99:59:59.
FormatCap == 359999

\* format_time with the hours shown modulo 24.
format_time_clock(seconds) ==
    LET capped == IF seconds < 0 THEN 0
                  ELSE IF seconds > FormatCap THEN FormatCap ELSE seconds
        hours == (capped \div 3600) % 24
        remainder == capped % 3600
    IN Pad2(hours) \o <<":">> \o Pad2(remainder \div 60)
           \o <<":">> \o Pad2(remainder % 60)

\* format_time(seconds), lines 515-528, for a whole number of seconds.
format_time(seconds) ==
    LET capped == IF seconds < 0 THEN 0
                  ELSE IF seconds > FormatCap THEN FormatCap ELSE seconds
        hours == capped \div 3600
        remainder == capped % 3600
    IN Pad2(hours) \o <<":">> \o Pad2(remainder \div 60)
           \o <<":">> \o Pad2(remainder % 60)

\* text.split(sep): the fields between the separators.
RECURSIVE Split(_, _)
Split(text, sep) ==
    IF \A i \in 1 .. Len(text) : text[i] # sep THEN <<text>>
    ELSE LET k == CHOOSE i \in 1 .. Len(text) :
                      text[i] = sep /\ \A j \in 1 .. i - 1 : text[j] # sep
         IN <<SubSeq(text, 1, k - 1)>>
                \o Split(SubSeq(text, k + 1, Len(text)), sep)

\* Is float(text) defined for a text of digits: it is not for the empty text.
IsNumber(text) == text # <<>> /\ \A i \in 1 .. Len(text) : IsDigit(text[i])

\* float(text) for a text of digits.
RECURSIVE Number(_)
Number(text) ==
    IF text = <<>> THEN 0
    ELSE 10 * Number(SubSeq(text, 1, Len(text) - 1)) + DigitValue(text[Len(text)])

\* float('0.' + digits) in hundredths, for at most two digits.
Fraction(digits) ==
    IF digits = <<>> THEN 0
    ELSE IF Len(digits) = 1 THEN 10 * Number(digits)
    ELSE Number(SubSeq(digits, 1, 2))

\* h * 3600 + m * 60 + s of lines 391 and 394, in hundredths of a second;
\* -1 when the unpacking or a float() raises.
BaseSeconds(base) ==
    LET fields == Split(base, ":") IN
    IF Len(fields) = 3 /\ \A i \in 1 .. 3 : IsNumber(fields[i])
    THEN 100 * (3600 * Number(fields[1]) + 60 * Number(fields[2])
                    + Number(fields[3]))
    ELSE -1

\* A conversion that drops the fraction.
TimeToSecondsWhole(text) ==
    LET base == Split(text, ".")[1] IN
    IF BaseSeconds(base) < 0 THEN 0 ELSE BaseSeconds(base)

\* Lines 385-397: time_seconds of a matched time text, in hundredths of a
\* second.  With a '.' the text is split at it, the part before gives h, m,
\* s and the part after the fraction; the bare except gives 0.
TimeToSeconds(text) ==
    LET parts == Split(text, ".") IN
    IF Len(parts) > 1
    THEN IF BaseSeconds(parts[1]) < 0
            \/ \E i \in 1 .. Len(parts[2]) : ~IsDigit(parts[2][i])
         THEN 0
         ELSE BaseSeconds(parts[1]) + Fraction(parts[2])
    ELSE IF BaseSeconds(text) < 0 THEN 0 ELSE BaseSeconds(text)

\* format_time on every whole number of seconds from below 0 to above the
\* cap, and its text converted back as a time= value of the log is.
FormatInit ==
    /\ pc = "format"
    /\ fmt_seconds \in -1 .. FormatCap + 1
    /\ time_str = <<>>
    /\ time_seconds = 0
    /\ other_str = <<>>
    /\ other_seconds = 0
    /\ JobAtRest
    /\ TailAtRest
    /\ ffmpeg_pid = NoPid
    /\ arg_pid = NoPid
    /\ probeFailed = FALSE
    /\ log_tail = <<>>
    /\ metadata = 0
    /\ encoding_speed = 0
    /\ resolved = 0
    /\ procs = [p \in Pids |-> "none"]
    /\ selfMention = FALSE
    /\ output_file = "arg"
    /\ is_running = FALSE
    /\ progress_info = NoInfo
    /\ current_size = 0
    /\ last_progress_time = 0
    /\ last_file_size = 0
    /\ size_unchanged_count = 0
    /\ time_unchanged_count = 0
    /\ completed = FALSE
    /\ outcome = "none"
    /\ exit_code = NotExited
    /\ sigint = FALSE
    /\ first_poll = TRUE
    /\ done_read = NotRead
    /\ prevT = 0
    /\ prevS = 0
    /\ tRun = 0
    /\ sRun = 0
    /\ steady = 0
    /\ barePoll = FALSE
    /\ tracking = FALSE

convFrame == <<ffmpeg_pid, procs, selfMention, sigint, outcome, exit_code,
               readerVars, jobVars, tailVars>>

FormatTime ==
    /\ pc = "format"
    /\ pc' = "convert"
    /\ time_str' = format_time(fmt_seconds)
    /\ UNCHANGED <<fmt_seconds, time_seconds, other_str, other_seconds>>
    /\ UNCHANGED convFrame
    /\ UNCHANGED progVars2
    /\ UNCHANGED ghostVars

ConvertTime ==
    /\ pc = "convert"
    /\ pc' = "converted"
    /\ time_seconds' = TimeToSeconds(time_str)
    /\ UNCHANGED <<fmt_seconds, time_str, other_str, other_seconds>>
    /\ UNCHANGED convFrame
    /\ UNCHANGED progVars2
    /\ UNCHANGED ghostVars

FormatNext ==
    \/ FormatTime
    \/ ConvertTime

FormatSpec == FormatInit /\ [][FormatNext]_vars

\* Valid time texts HH:MM:SS and HH:MM:SS.fraction as ffmpeg writes them,
\* two digits to a field, by their fields; frac is the fraction's digits
\* with the hundredths they denote, no digits for a text without fraction.
HourVals == {0, 1, 12}

MinuteVals == {0, 59}

SecondVals == {0, 1, 59}

FracVals == {[digits |-> <<>>, hundredths |-> 0],
             [digits |-> <<"5">>, hundredths |-> 50],
             [digits |-> <<"0", "5">>, hundredths |-> 5],
             [digits |-> <<"9", "9">>, hundredths |-> 99]}

TimeText(h, m, s, frac) ==
    Pad2(h) \o <<":">> \o Pad2(m) \o <<":">> \o Pad2(s)
        \o (IF frac.digits = <<>> THEN <<>> ELSE <<".">> \o frac.digits)

ValidTimes ==
    {TimeText(h, m, s, frac) :
        h \in HourVals, m \in MinuteVals, s \in SecondVals, frac \in FracVals}

\* Two time= values of the log converted, as two polls convert them.
ParseInit ==
    /\ pc = "compare"
    /\ fmt_seconds = 0
    /\ time_str \in ValidTimes
    /\ time_seconds = 0
    /\ other_str \in ValidTimes
    /\ other_seconds = 0
    /\ JobAtRest
    /\ TailAtRest
    /\ ffmpeg_pid = NoPid
    /\ arg_pid = NoPid
    /\ probeFailed = FALSE
    /\ log_tail = <<>>
    /\ metadata = 0
    /\ encoding_speed = 0
    /\ resolved = 0
    /\ procs = [p \in Pids |-> "none"]
    /\ selfMention = FALSE
    /\ output_file = "arg"
    /\ is_running = FALSE
    /\ progress_info = NoInfo
    /\ current_size = 0
    /\ last_progress_time = 0
    /\ last_file_size = 0
    /\ size_unchanged_count = 0
    /\ time_unchanged_count = 0
    /\ completed = FALSE
    /\ outcome = "none"
    /\ exit_code = NotExited
    /\ sigint = FALSE
    /\ first_poll = TRUE
    /\ done_read = NotRead
    /\ prevT = 0
    /\ prevS = 0
    /\ tRun = 0
    /\ sRun = 0
    /\ steady = 0
    /\ barePoll = FALSE
    /\ tracking = FALSE

ConvertPair ==
    /\ pc = "compare"
    /\ pc' = "compared"
    /\ time_seconds' = TimeToSeconds(time_str)
    /\ other_seconds' = TimeToSeconds(other_str)
    /\ UNCHANGED <<fmt_seconds, time_str, other_str>>
    /\ UNCHANGED convFrame
    /\ UNCHANGED progVars2
    /\ UNCHANGED ghostVars

ParseNext == ConvertPair

ParseSpec == ParseInit /\ [][ParseNext]_vars

(* ------------------------------------------------------ the log tail reader *)

\* Lines 311 and 318: files under 50000 bytes are read whole, of larger
\* ones the last 50000 bytes.
TailBytes == 50000

\* A log file is the sequence of its lines, each by its length in bytes
\* (line end included), or does not exist.  The lines returned are named by
\* their place in the file; whole says that all of the line was returned.
MaxFileLines == 4

LineBytes == {10000, 20000, 25000}

LogFiles ==
    {[exists |-> FALSE, lines |-> <<>>]}
        \cup {[exists |-> TRUE, lines |-> l] :
                 l \in UNION {[1 .. n -> LineBytes] : n \in 0 .. MaxFileLines}}

\* The callers pass 50 and 100 (lines 337, 375); smaller limits cut a tail
\* of MaxFileLines lines.
MaxLinesArgs == {1, 2, 50}

\* What can go wrong under the reader: the file vanishes between
\* os.path.exists and os.path.getsize or open(), or cannot be opened, or the
\* read or its decoding raises.
Faults == {"none", "vanish", "unreadable", "read"}

RECURSIVE FileSize(_)
FileSize(lines) ==
    IF lines = <<>> THEN 0 ELSE Head(lines) + FileSize(Tail(lines))

\* The offset of the first byte of line i.
StartOf(lines, i) == FileSize(SubSeq(lines, 1, i - 1))

\* f.read().splitlines() from offset 0.
WholeFile(lines) == [i \in 1 .. Len(lines) |-> [line |-> i, whole |-> TRUE]]

\* lines[-max_lines:] if len(lines) > max_lines else lines.
LastN(seq, n) ==
    IF Len(seq) > n THEN SubSeq(seq, Len(seq) - n + 1, Len(seq)) ELSE seq

\* f.read().splitlines() from offset pos: the line that holds byte pos from
\* that byte on, and the lines after it.
ReadFrom(lines, pos) ==
    LET first == CHOOSE i \in 1 .. Len(lines) :
                     StartOf(lines, i) <= pos /\ pos < StartOf(lines, i) + lines[i]
    IN [j \in 1 .. Len(lines) - first + 1 |->
           [line |-> first + j - 1,
            whole |-> (j > 1 \/ StartOf(lines, first) = pos)]]

\* The tail read without the readline() of line 322.
TailLinesNoSkip(lines, pos) == ReadFrom(lines, pos)

\* Lines 318-325: seek to pos, skip to the end of the line the seek landed
\* in when pos > 0 (f.readline()), read the rest.
TailLines(lines, pos) ==
    IF pos > 0 THEN Tail(ReadFrom(lines, pos)) ELSE ReadFrom(lines, pos)

\* The reader without its try / except.
read_latest_log_lines_unguarded(file, limit, fault) ==
    IF ~file.exists THEN [lines |-> <<>>, error |-> FALSE]
    ELSE IF fault # "none" THEN [lines |-> <<>>, error |-> TRUE]
    ELSE IF FileSize(file.lines) = 0 THEN [lines |-> <<>>, error |-> FALSE]
    ELSE IF FileSize(file.lines) < TailBytes
    THEN [lines |-> WholeFile(file.lines), error |-> FALSE]
    ELSE [lines |-> LastN(TailLines(file.lines,
                                    FileSize(file.lines) - TailBytes), limit),
          error |-> FALSE]

\* read_latest_log_lines(log_file, max_lines), lines 299-331: [lines, error]
\* where error says that an exception reached the caller.  Every exception
\* of the body is caught at line 329 and [] returned.
read_latest_log_lines(file, limit, fault) ==
    IF ~file.exists THEN [lines |-> <<>>, error |-> FALSE]
    ELSE IF fault # "none" THEN [lines |-> <<>>, error |-> FALSE]
    ELSE IF FileSize(file.lines) = 0 THEN [lines |-> <<>>, error |-> FALSE]
    ELSE IF FileSize(file.lines) < TailBytes
    THEN [lines |-> WholeFile(file.lines), error |-> FALSE]
    ELSE [lines |-> LastN(TailLines(file.lines,
                                    FileSize(file.lines) - TailBytes), limit),
          error |-> FALSE]

TailInit ==
    /\ pc = "tail"
    /\ log_file \in LogFiles
    /\ max_lines \in MaxLinesArgs
    /\ recent_lines = <<>>
    /\ read_error = FALSE
    /\ read_fault = "none"
    /\ JobAtRest
    /\ ConvAtRest
    /\ ffmpeg_pid = NoPid
    /\ arg_pid = NoPid
    /\ probeFailed = FALSE
    /\ log_tail = <<>>
    /\ metadata = 0
    /\ encoding_speed = 0
    /\ resolved = 0
    /\ procs = [p \in Pids |-> "none"]
    /\ selfMention = FALSE
    /\ output_file = "arg"
    /\ is_running = FALSE
    /\ progress_info = NoInfo
    /\ current_size = 0
    /\ last_progress_time = 0
    /\ last_file_size = 0
    /\ size_unchanged_count = 0
    /\ time_unchanged_count = 0
    /\ completed = FALSE
    /\ outcome = "none"
    /\ exit_code = NotExited
    /\ sigint = FALSE
    /\ first_poll = TRUE
    /\ done_read = NotRead
    /\ prevT = 0
    /\ prevS = 0
    /\ tRun = 0
    /\ sRun = 0
    /\ steady = 0
    /\ barePoll = FALSE
    /\ tracking = FALSE

\* One call of read_latest_log_lines; a fault needs a file that was there
\* at the os.path.exists of line 302.
ReadLatest ==
    /\ pc = "tail"
    /\ pc' = "tail_read"
    /\ \E fault \in Faults :
        /\ fault # "none" => log_file.exists
        /\ read_fault' = fault
        /\ recent_lines' = read_latest_log_lines(log_file, max_lines, fault).lines
        /\ read_error' = read_latest_log_lines(log_file, max_lines, fault).error
    /\ UNCHANGED <<log_file, max_lines>>
    /\ UNCHANGED <<ffmpeg_pid, procs, selfMention, sigint, outcome, exit_code,
                   readerVars, jobVars, convVars>>
    /\ UNCHANGED progVars2
    /\ UNCHANGED ghostVars

TailNext == ReadLatest

TailSpec == TailInit /\ [][TailNext]_vars

(* ================================================================ claims *)

\* The three outcomes the exit code has to tell apart.
OutcomeClass(o) == IF o \in Completions THEN "completed" ELSE o

ReportedOutcomes == Completions \cup {"interrupted", "nojob"}

\* C1: in a poll where the liveness check reports not-alive and the size
\* read of line 623 was made (done_read), the loop declares completion by
\* the process-ended signal in that same poll exactly when the output file
\* exists with more than 1024 bytes; with the file missing or at most 1024
\* bytes the poll goes on to the metrics.
C1_ProcessEndedSignal ==
    /\ done_read # NotRead =>
          ((done_read > SanitySize)
              <=> (pc = "done" /\ outcome = "process" /\ completed))
    /\ outcome = "process" => done_read > SanitySize

C1_Witness ==
    /\ pc = "done"
    /\ outcome = "process"
    /\ completed
    /\ done_read = SanitySize + 1

\* C2 as stated: from a fresh monitor, the 5th consecutive poll that sees the
\* process alive, the video time advancing and the output file at one
\* non-zero size declares completion by the size signal.
C2_FifthPollCompletes ==
    steady = Threshold => (pc = "done" /\ outcome = "size")

\* C2 amended: from a fresh monitor the first poll only records the size, so
\* completion by the size signal is declared at the 6th such poll and at no
\* earlier one, and no other signal fires on the way.
C2_SixthPollCompletes ==
    /\ steady = Threshold + 1 => (pc = "done" /\ outcome = "size" /\ completed)
    /\ steady \in 1 .. Threshold => (pc # "done" /\ outcome = "none")
    /\ steady <= Threshold + 1

C2_Witness ==
    /\ steady = Threshold + 1
    /\ pc = "done"
    /\ outcome = "size"

\* C3: a stagnation verdict is issued exactly in the poll in which the
\* tracked value (video time, output size) has been unchanged for the 5th
\* consecutive poll: never with a shorter run, and the loop never goes on
\* after a 5th consecutive unchanged poll.
C3_ExactThreshold ==
    /\ (pc = "done" /\ outcome = "time") => tRun = Threshold
    /\ (pc = "done" /\ outcome = "size") => sRun = Threshold
    /\ pc # "done" => (tRun < Threshold /\ sRun < Threshold)

\* C4: whenever a poll has computed a percent-complete value it lies in
\* [0, 95], also when the video time exceeds the total duration.
C4_PercentRange ==
    progress_info.has =>
        /\ progress_info.progress_percent[2] > 0
        /\ progress_info.progress_percent[1] >= 0
        /\ progress_info.progress_percent[1] <= 95 * progress_info.progress_percent[2]

C4_Witness ==
    /\ progress_info.has
    /\ progress_info.total_duration > 0
    /\ 20 * progress_info.time > progress_info.total_duration
    /\ progress_info.progress_percent = <<95, 1>>
    /\ pc = "stagnation"

\* C5: a first poll made with no known process id, no encoder process
\* running, the log absent and the output file absent reports not-alive and
\* percent 0 and declares no completion.
C5_BareFirstPoll ==
    (barePoll /\ pc = "metrics") =>
        /\ ~is_running
        /\ progress_info.progress_percent = <<0, 1>>
        /\ outcome = "none"

\* C6: no transient I/O failure during a poll ends the poll loop.
C6_TransientNeverFatal ==
    outcome # "error"

\* C7: a poll resets the video-time stagnation counter only when it obtained
\* a reading and that reading differs from the recorded one.
C7_ResetOnlyOnChange ==
    [][(pc = "stagnation" /\ pc' = "sleep"
            /\ time_unchanged_count > 0 /\ time_unchanged_count' = 0)
        => (progress_info.has /\ progress_info.time # last_progress_time)]_vars

\* C8: an interrupt delivered at any point of a poll ends the loop with the
\* interrupted outcome.
C8_InterruptEndsLoop ==
    sigint => (pc = "done" /\ outcome = "interrupted")

\* C9: normal completion, user-initiated stop and no-job-found end the
\* monitor with pairwise different exit codes.
C9_DistinctExitCodes ==
    (pc = "done" /\ outcome \in ReportedOutcomes) =>
        /\ exit_code = ExitCode(outcome)
        /\ \A o \in ReportedOutcomes :
              OutcomeClass(o) # OutcomeClass(outcome) => ExitCode(o) # exit_code

\* C10: no step of the monitor (poll, completion, error exit, cancellation)
\* changes the process table: the only signal it sends is the existence
\* probe.
C10_JobUntouched ==
    [][pc' # pc => procs' = procs]_vars

C10_Witness ==
    /\ pc = "done"
    /\ outcome = "interrupted"
    /\ ffmpeg_pid \in Pids
    /\ procs[ffmpeg_pid] = "ffmpeg"

\* The encoder processes of the table: those whose program name is ffmpeg.
Encoders(table) == {p \in DOMAIN table : table[p] = "ffmpeg"}

\* C11: a liveness check of a known process id that does not exist, or that
\* exists under another program name, returns not-alive.  (A step that
\* leaves the process table alone is a step of the monitor.)
C11_KnownPidNotAlive ==
    [][(procs' = procs /\ ffmpeg_pid # NoPid
            /\ (\/ ~PidExists(procs, ffmpeg_pid)
                \/ CommName(procs, ffmpeg_pid) # "ffmpeg"))
        => ~is_running']_vars

\* C12: a liveness check whose ps command failed returns not-alive.
C12_ProbeErrorNotAlive ==
    probeFailed => ~is_running

\* C13: with a process id supplied at start-up, every liveness check probes
\* that id and leaves it the known id.
C13_SuppliedPidOnly ==
    [][(procs' = procs /\ arg_pid # NoPid)
        => (ffmpeg_pid = arg_pid /\ ffmpeg_pid' = arg_pid)]_vars

\* C14: the scan adopts a process id only when exactly one process matches
\* (stated for a monitor whose own command line does not match).
C14_AdoptOnlyUnique ==
    [][(ffmpeg_pid = NoPid /\ ffmpeg_pid' # NoPid /\ ~selfMention)
        => Cardinality(Encoders(procs)) = 1]_vars

\* C15: with no known id, a liveness check whose process listing succeeded
\* reports alive exactly when some process has the encoder as its program
\* name, and never adopts the id of the monitor itself.
C15_ScanMatchesProgramName ==
    [][(procs' = procs /\ ffmpeg_pid = NoPid /\ ~probeFailed')
        => /\ is_running' <=> (Encoders(procs) # {})
           /\ ffmpeg_pid' # SelfPid]_vars

\* The positions of the tail that hold a time occurrence, a parseable
\* throughput occurrence, a parseable time occurrence.
TimeOccurrences(lines) == {i \in 1 .. Len(lines) : lines[i].time # NoField}

SpeedValues(lines) == {i \in 1 .. Len(lines) : lines[i].speed >= 0}

TimeValues(lines) == {i \in 1 .. Len(lines) : lines[i].time >= 0}

Last(S) == CHOOSE i \in S : \A j \in S : j <= i

WellFormed(lines) ==
    \A i \in 1 .. Len(lines) :
        lines[i].time # Unparsable /\ lines[i].speed # Unparsable

\* C16: once a poll has resolved a positive total duration, every later
\* poll that reads the log uses that same value.
C16_DurationCached ==
    (pc = "read" /\ resolved > 0 /\ progress_info.has)
        => progress_info.total_duration = resolved

C18_PercentFormula ==
    (pc = "read" /\ progress_info.has) =>
        LET t == progress_info.time
            d == progress_info.total_duration
            n == progress_info.progress_percent[1]
            m == progress_info.progress_percent[2]
        IN /\ m > 0
           /\ (t > 0 /\ d > 0) =>
                 IF 2000 * t >= 95 * d THEN n = 95 * m ELSE n * d = 2000 * t * m
           /\ (t > 0 /\ d = 0) =>
                 IF t >= 50 THEN n = 10 * m ELSE 5 * n = t * m
           /\ t = 0 => n = 0

C18_Witness ==
    /\ pc = "read"
    /\ metadata = 120
    /\ progress_info.time = 50
    /\ progress_info.total_duration = 2520
    /\ progress_info.progress_percent[1] * 126
          = 100 * 50 * progress_info.progress_percent[2]

\* C19 as stated: for a tail of well-formed lines with several time and
\* several throughput occurrences, the extracted time and the extracted
\* throughput are the values of the last occurrences.
C19_LastOccurrence ==
    (/\ pc = "read"
     /\ WellFormed(log_tail)
     /\ Cardinality(TimeValues(log_tail)) >= 2
     /\ Cardinality(SpeedValues(log_tail)) >= 2)
        => /\ progress_info.time = log_tail[Last(TimeValues(log_tail))].time
           /\ encoding_speed = log_tail[Last(SpeedValues(log_tail))].speed

\* C19 amended: the extracted time is the value of the last time occurrence
\* of the tail (0 when that occurrence does not convert), and the extracted
\* throughput is the value of the last parseable throughput occurrence
\* capped at 8.
C19_LastOccurrenceCapped ==
    (pc = "read" /\ log_tail # <<>>) =>
        /\ TimeOccurrences(log_tail) # {} =>
              progress_info.time =
                  IF log_tail[Last(TimeOccurrences(log_tail))].time = Unparsable
                  THEN 0
                  ELSE log_tail[Last(TimeOccurrences(log_tail))].time
        /\ SpeedValues(log_tail) # {} =>
              encoding_speed =
                  IF log_tail[Last(SpeedValues(log_tail))].speed > SpeedCap
                  THEN SpeedCap
                  ELSE log_tail[Last(SpeedValues(log_tail))].speed

C19_Witness ==
    /\ pc = "read"
    /\ Len(log_tail) = 2
    /\ log_tail[1].time = 1
    /\ log_tail[1].speed = 2
    /\ log_tail[2].time = 50
    /\ log_tail[2].speed = 9
    /\ progress_info.time = 50
    /\ encoding_speed = SpeedCap

\* C20: when the tail holds no parseable occurrence of a metric, the metric
\* is reported as absent and not as the number 0.
C20_AbsentNotZero ==
    pc = "read" =>
        /\ TimeValues(log_tail) = {} =>
              ~(progress_info.has /\ progress_info.time = 0)
        /\ SpeedValues(log_tail) = {} => encoding_speed # 0

\* C21: on a completion verdict the final status reports 100 percent, and
\* 100 percent is never on the terminal while the loop is still polling.
C21_FinalPercent ==
    /\ outcome \in Completions => shown[1] = 100 * shown[2]
    /\ pc # "done" => shown[1] # 100 * shown[2]

\* C22: for every whole n from 0 to 359999, format_time(n) converted back
\* to seconds by the time conversion gives n (100 * n hundredths).
C22_FormatRoundTrip ==
    (pc = "converted" /\ fmt_seconds >= 0 /\ fmt_seconds <= FormatCap)
        => time_seconds = 100 * fmt_seconds

C22_Witness ==
    /\ pc = "converted"
    /\ fmt_seconds = FormatCap
    /\ time_str = <<"9", "9", ":", "5", "9", ":", "5", "9">>
    /\ time_seconds = 100 * FormatCap

\* The order of two texts character by character, by character code; a
\* proper prefix comes first.  For time texts of two digits to a field this
\* is the order of the times they denote.
RECURSIVE LexLess(_, _)
LexLess(a, b) ==
    IF b = <<>> THEN FALSE
    ELSE IF a = <<>> THEN TRUE
    ELSE IF Head(a) # Head(b) THEN CharCode(Head(a)) < CharCode(Head(b))
    ELSE LexLess(Tail(a), Tail(b))

\* C23: a valid HH:MM:SS or HH:MM:SS.fraction text converts to exactly
\* 3600 * HH + 60 * MM + SS plus the fraction (in hundredths of a second),
\* and of two valid texts the later one never converts to fewer seconds
\* (to more, when the two have the same number of fraction digits).
C23_ExactAndMonotonic ==
    pc = "compared" =>
        /\ \A h \in HourVals, m \in MinuteVals, s \in SecondVals,
              frac \in FracVals :
              time_str = TimeText(h, m, s, frac)
                  => time_seconds
                         = 100 * (3600 * h + 60 * m + s) + frac.hundredths
        /\ LexLess(other_str, time_str) => other_seconds <= time_seconds
        /\ LexLess(other_str, time_str) /\ Len(other_str) = Len(time_str)
              => other_seconds < time_seconds

C23_Witness ==
    /\ pc = "compared"
    /\ time_str = <<"1", "2", ":", "5", "9", ":", "5", "9", ".", "9", "9">>
    /\ time_seconds = 100 * (3600 * 12 + 60 * 59 + 59) + 99
    /\ other_str = <<"1", "2", ":", "5", "9", ":", "5", "9", ".", "5">>
    /\ other_seconds = 100 * (3600 * 12 + 60 * 59 + 59) + 50

\* C24: the tail reader returns no line and lets no error reach its caller
\* when the log file is missing, is empty, or vanishes or cannot be read
\* during the call.
C24_EmptyOnMissing ==
    (/\ pc = "tail_read"
     /\ \/ ~log_file.exists
        \/ log_file.lines = <<>>
        \/ read_fault # "none")
        => recent_lines = <<>> /\ ~read_error

C24_Witness ==
    /\ pc = "tail_read"
    /\ log_file.exists
    /\ log_file.lines # <<>>
    /\ read_fault = "vanish"
    /\ recent_lines = <<>>
    /\ ~read_error

\* What the size signal's own reading dictates for a poll that goes on:
\* cur is the size read (0 for no file), the counter goes up by one for a
\* positive size equal to the last one, to 0 for any other size of a file
\* that is there, and stays for a file that is not there at line 708.
SizeDictates(cur, last, count, count2, last2) ==
    /\ last2 = cur
    /\ IF cur = last /\ cur > 0
       THEN count2 \in {count + 1, count}
       ELSE count2 \in {0, count}

\* C25: in the poll step that updates the stagnation state, the video-time
\* state becomes what the time reading alone dictates and the size state
\* what the file reading alone dictates, whatever the other reading is and
\* also when it fails.
C25_SignalsIndependent ==
    [][(pc = "stagnation" /\ pc' # "stagnation" /\ ~sigint') =>
          LET t == TimeStagnation(progress_info, last_progress_time,
                                  time_unchanged_count)
          IN /\ t.done => outcome' = "time"
             /\ ~t.done => (pc' = "sleep" \/ outcome' = "size")
             /\ pc' = "sleep" =>
                   /\ time_unchanged_count' = t.count
                   /\ last_progress_time' = t.last
                   /\ SizeDictates(current_size', last_file_size,
                                   size_unchanged_count,
                                   size_unchanged_count', last_file_size')]_vars

\* The places in the file of the lines returned.
Returned == {recent_lines[j].line : j \in 1 .. Len(recent_lines)}

\* recent_lines is whole lines only, in file order, ending with the last
\* line of the file.
WholeSuffix ==
    \E k \in 0 .. Len(log_file.lines) :
        recent_lines = [j \in 1 .. Len(log_file.lines) - k |->
                           [line |-> k + j, whole |-> TRUE]]

\* The first of a set of places.
First(S) == CHOOSE i \in S : \A j \in S : i <= j

\* The last n of a set of places.
LastOf(S, n) == {i \in S : Cardinality({j \in S : j >= i}) <= n}

\* The offset at which the last TailBytes bytes of the file begin.
WindowStart == FileSize(log_file.lines) - TailBytes

\* The lines with at least one byte in the last TailBytes bytes.
Window ==
    {i \in 1 .. Len(log_file.lines) :
        StartOf(log_file.lines, i) + log_file.lines[i] > WindowStart}

\* C26 as stated: a suffix of whole lines; the whole file under 50000
\* bytes; otherwise the lines in the last 50000 bytes without the first of
\* them, limited to the last max_lines.
C26_TailSuffix ==
    (pc = "tail_read" /\ log_file.exists /\ read_fault = "none") =>
        /\ WholeSuffix
        /\ FileSize(log_file.lines) < TailBytes
              => Returned = 1 .. Len(log_file.lines)
        /\ FileSize(log_file.lines) >= TailBytes
              => Returned = LastOf(Window \ {First(Window)}, max_lines)

\* C26 amended: the first line of the last 50000 bytes is dropped only when
\* those bytes do not begin at the start of the file, that is, the lines
\* returned are those that begin after the window's first byte, or all
\* lines of a file of exactly 50000 bytes.
C26_TailSuffixFromStart ==
    (pc = "tail_read" /\ log_file.exists /\ read_fault = "none") =>
        /\ WholeSuffix
        /\ FileSize(log_file.lines) < TailBytes
              => Returned = 1 .. Len(log_file.lines)
        /\ FileSize(log_file.lines) = TailBytes
              => Returned = LastOf(1 .. Len(log_file.lines), max_lines)
        /\ FileSize(log_file.lines) > TailBytes
              => Returned =
                     LastOf({i \in 1 .. Len(log_file.lines) :
                                StartOf(log_file.lines, i) > WindowStart},
                            max_lines)

C26_Witness ==
    /\ pc = "tail_read"
    /\ log_file.exists
    /\ read_fault = "none"
    /\ log_file.lines = <<20000, 20000, 20000>>
    /\ max_lines = 1
    /\ recent_lines = <<[line |-> 3, whole |-> TRUE]>>

\* A step of the liveness check that changes what the monitor holds.
CheckStep ==
    /\ procs' = procs
    /\ <<is_running, ffmpeg_pid, probeFailed>>'
           # <<is_running, ffmpeg_pid, probeFailed>>

\* C27 as stated: an adopted id never changes, and once a check has found
\* the adopted encoder gone (not-alive with a known id) every later check
\* reports not-alive.
C27_AdoptedForGood ==
    [][/\ ffmpeg_pid # NoPid => ffmpeg_pid' = ffmpeg_pid
       /\ (ffmpeg_pid \in ScanPids /\ ~is_running) => ~is_running']_vars

\* C27 amended: an adopted id never changes, and a check made while no
\* process holds the adopted id reports not-alive whatever other processes
\* run; it reports alive only for a process under that very id.
C27_AdoptedWhileFree ==
    [][/\ ffmpeg_pid # NoPid => ffmpeg_pid' = ffmpeg_pid
       /\ (CheckStep /\ ffmpeg_pid # NoPid /\ ~PidExists(procs, ffmpeg_pid))
             => ~is_running'
       /\ (CheckStep /\ ffmpeg_pid # NoPid /\ is_running')
             => PidExists(procs, ffmpeg_pid)]_vars

C27_Witness ==
    /\ ffmpeg_pid \in ScanPids
    /\ procs[ffmpeg_pid] = "none"
    /\ \E p \in ScanPids : procs[p] = "ffmpeg"
    /\ ~selfMention
    /\ ~is_running

\* C28: once the encoder process has exited (its files then stay as they
\* are), the poll loop eventually ends with a verdict.
C28_EventuallyVerdict == (~Encoding) ~> (pc = "done")

\* C29: in the poll step that updates the stagnation state, a video time
\* that is absent or 0 sets the time counter to 0 and does not complete by
\* the time signal; an output file that is absent or empty (size read 0)
\* does not raise the size counter, and a completion by the size signal
\* comes only in a poll that read a positive size equal to the poll
\* before's (sRun).
C29_CountOnlyObserved ==
    [][(pc = "stagnation" /\ pc' # "stagnation" /\ ~sigint') =>
          /\ (~progress_info.has \/ progress_info.time = 0) =>
                /\ outcome' # "time"
                /\ pc' = "sleep" => time_unchanged_count' = 0
          /\ (pc' = "sleep" /\ current_size' = 0) =>
                size_unchanged_count' <= size_unchanged_count
          /\ outcome' = "size" => sRun' > 0]_vars

C29_Witness ==
    /\ pc = "sleep"
    /\ ~first_poll
    /\ ~progress_info.has
    /\ current_size = 0
    /\ time_unchanged_count = 0
    /\ size_unchanged_count >= 1

\* C30: whenever the loop has declared completion, by any signal, the
\* output file exists with a non-zero size at that poll (the file does not
\* change once the loop has ended).
C30_CompletionHasOutput ==
    outcome \in Completions => (out_size # Absent /\ out_size > 0)
====
